---- MODULE Spec2Model ----
(***************************************************************************)
(* A model of package configuration (src/configuration.go): a key/value    *)
(* store loaded from a text file and refreshed by a background goroutine.  *)
(*                                                                         *)
(* Go strings are modelled as sequences of one-character strings, so that  *)
(* trimming, delimiter search and slicing are computed, not assumed.       *)
(***************************************************************************)
EXTENDS Integers, Sequences, FiniteSets, TLC

(***************************************************************************)
(* Bounds of the model.                                                    *)
(***************************************************************************)
\* modification times and lastupdate range over 0..MaxTime (0 is the epoch)
MaxTime == 2
\* longest key sequence handed to GetSlice in GetSliceSpec
MaxKeys == 3
\* longest line handed to SplitConfigurationFileLine in SplitSpec
MaxLine == 5

(***************************************************************************)
(* The state: the fields of Configuration and what surrounds the store.    *)
(***************************************************************************)
VARIABLES
    fs,                 \* the file system: path -> file
    filename,           \* Configuration.filename
    lastupdate,         \* Configuration.lastupdate
    parameters,         \* Configuration.parameters
    ShouldLogUpdates,   \* Configuration.ShouldLogUpdates
    mutex,              \* Configuration.mutex
    ctxDone,            \* whether ctx.Done() is closed
    pc,                 \* where each goroutine is
    frame,              \* the call each goroutine is in or has last returned from
    log,                \* the events the latest step of the store gave the logging sink
    phase,              \* "start", "constructing", "fresh" (New returned, unused), "used"
    lastPass,           \* the reconciliation pass that ended last, until the next write begins
    lastWrite           \* per key, the value of the latest write in real-time order

vars == <<fs, filename, lastupdate, parameters, ShouldLogUpdates, mutex,
          ctxDone, pc, frame, log, phase, lastPass, lastWrite>>

(***************************************************************************)
(* Strings.                                                                *)
(***************************************************************************)
\* the bytes strings.TrimSpace removes that occur in the modelled files
WhiteSpace == {" ", "\t", "\r", "\n"}

\* the cutset of strings.IndexAny(s, "=:")
Delimiters == {"=", ":"}

\* LongRun stands for a run of MaxScanTokenSize bytes 'x' (no space, no delimiter)
LongRun == "x*65536"

\* bufio.MaxScanTokenSize, the Scanner's buffer limit
MaxScanTokenSize == 65536

ByteWidth(ch) == IF ch = LongRun THEN MaxScanTokenSize ELSE 1

RECURSIVE ByteLen(_)
ByteLen(s) == IF s = <<>> THEN 0 ELSE ByteWidth(Head(s)) + ByteLen(Tail(s))

RECURSIVE TrimLeft(_)
TrimLeft(s) ==
    IF s # <<>> /\ Head(s) \in WhiteSpace THEN TrimLeft(Tail(s)) ELSE s

RECURSIVE TrimRight(_)
TrimRight(s) ==
    IF s # <<>> /\ s[Len(s)] \in WhiteSpace
    THEN TrimRight(SubSeq(s, 1, Len(s) - 1))
    ELSE s

\* no trimming at all
TrimNothing(s) == s

\* strings.TrimSpace
TrimSpace(s) == TrimRight(TrimLeft(s))

\* strings.LastIndexAny: 0-based index of the last byte of s in chars, or -1
LastIndexAny(s, chars) ==
    IF \E i \in 1..Len(s) : s[i] \in chars
    THEN (CHOOSE i \in 1..Len(s) :
              /\ s[i] \in chars
              /\ \A j \in (i + 1)..Len(s) : s[j] \notin chars) - 1
    ELSE -1

\* strings.IndexAny: 0-based index of the first byte of s in chars, or -1
IndexAny(s, chars) ==
    IF \E i \in 1..Len(s) : s[i] \in chars
    THEN (CHOOSE i \in 1..Len(s) :
              /\ s[i] \in chars
              /\ \A j \in 1..(i - 1) : s[j] \notin chars) - 1
    ELSE -1

(***************************************************************************)
(* The parser.                                                             *)
(***************************************************************************)
NoError == "nil"
ErrEmptyParameter == "empty parameter"
ErrMissingDelimiter == "missing delimiter (':' or '=')"

SplitConfigurationFileLine(line) ==
    LET s == TrimSpace(line)
        i == IndexAny(s, Delimiters)
    IN  IF Len(s) = 0
        THEN [first |-> <<>>, second |-> <<>>, err |-> ErrEmptyParameter]
        ELSE IF i = -1
        THEN [first |-> <<>>, second |-> <<>>, err |-> ErrMissingDelimiter]
        ELSE [first  |-> SubSeq(s, 1, i),
              second |-> SubSeq(s, i + 2, Len(s)),
              err    |-> NoError]

(***************************************************************************)
(* bufio.Scanner with the default split function ScanLines.                *)
(***************************************************************************)
\* dropCR of bufio.ScanLines
DropCR(s) ==
    IF s # <<>> /\ s[Len(s)] = "\r" THEN SubSeq(s, 1, Len(s) - 1) ELSE s

\* The tokens the loop `for scanner.Scan()` sees: the lines of data, each
\* without its "\n" and one trailing "\r". A final line without "\n" is a
\* token when it is not empty. Scan returns false (the error is not looked
\* at by update) on the first line that does not fit the buffer.
RECURSIVE ScannerTokens(_)
ScannerTokens(data) ==
    IF data = <<>> THEN <<>>
    ELSE LET i    == IndexAny(data, {"\n"})
             line == IF i = -1 THEN data ELSE SubSeq(data, 1, i)
             rest == IF i = -1 THEN <<>> ELSE SubSeq(data, i + 2, Len(data))
         IN  IF ByteLen(line) >= MaxScanTokenSize
             THEN <<>>
             ELSE <<DropCR(line)>> \o ScannerTokens(rest)

(***************************************************************************)
(* Go maps of type map[string]string. A nil map reads as an empty map and  *)
(* panics on assignment.                                                   *)
(***************************************************************************)
EmptyEntries == [k \in {} |-> <<>>]

\* the zero value of the field parameters (no make(...) was executed)
NilMap == [isNil |-> TRUE, entries |-> EmptyEntries]

MapFound(m, k) == k \in DOMAIN m.entries

\* m[k]: the stored value, or the zero value "" when k is absent
MapLookup(m, k) == IF MapFound(m, k) THEN m.entries[k] ELSE <<>>

\* m[k] = v panics when m is nil
MapStorePanics(m) == m.isNil

\* a store that is made only when updates are logged
MapStoreWhenLogging(m, k, v) ==
    IF ShouldLogUpdates
    THEN [isNil   |-> FALSE,
          entries |-> [x \in DOMAIN m.entries \cup {k} |->
                          IF x = k THEN v ELSE m.entries[x]]]
    ELSE m

\* a store that keeps no other key
MapStoreAlone(m, k, v) ==
    [isNil |-> FALSE, entries |-> [x \in {k} |-> v]]

\* m[k] = v on a map that is not nil
MapStore(m, k, v) ==
    [isNil   |-> FALSE,
     entries |-> [x \in DOMAIN m.entries \cup {k} |->
                     IF x = k THEN v ELSE m.entries[x]]]

(***************************************************************************)
(* The files the environment keeps at the paths the store is pointed at.   *)
(***************************************************************************)
Paths == {"p", "q"}

\* "a=1\nb=2"
FileAB == <<"a", "=", "1", "\n", "b", "=", "2">>
\* "j\n \n": a line without delimiter and a blank line
FileJunk == <<"j", "\n", " ", "\n">>
\* "j\na:2\n": a line without delimiter, then a valid line
FileMixed == <<"j", "\n", "a", ":", "2", "\n">>

\* a line of MaxScanTokenSize bytes without delimiter, then "b=1"
FileLong == <<LongRun, "\n", "b", "=", "1">>

\* the contents the environment writes to the path "p"
Contents == {FileAB, FileJunk, FileMixed}

Times == 0..MaxTime

\* os.Stat fails with ErrNotExist
Absent == [status |-> "absent", mtime |-> 0, content |-> <<>>]
\* os.Stat fails with another error (a directory that cannot be searched)
StatErr == [status |-> "staterr", mtime |-> 0, content |-> <<>>]
\* os.Stat succeeds and os.Open fails (a file that cannot be read)
NoPerm(m) == [status |-> "noperm", mtime |-> m, content |-> <<>>]
\* a readable file
Readable(m, c) == [status |-> "ok", mtime |-> m, content |-> c]

ReadableFiles == {Readable(m, c) : m \in Times, c \in Contents}
BrokenFiles == {StatErr, NoPerm(MaxTime)}

(***************************************************************************)
(* Goroutines: main calls New and then writes to the store (SetKeyValue,   *)
(* SetFilename, Update), other is a goroutine of the consumer that reads   *)
(* it (Get, GetSlice), bg is the goroutine started by New.                 *)
(***************************************************************************)
Callers == {"main", "other"}
Goroutines == Callers \cup {"bg"}

\* the keys and values the callers use; no file holds the key "m"
Keys == {<<"a">>, <<"b">>, <<"m">>}
Values == {<<"1">>, <<"2">>}

\* the keys main passes to SetKeyValue
SetKeys == {<<"a">>}

\* the keys other passes to Get
GetKeys == {<<"a">>}

\* the key sequences other passes to GetSlice
SliceQueries == {<< <<"a">>, <<"m">>, <<"b">> >>}

Files == {Absent} \cup BrokenFiles \cup ReadableFiles

\* The environment changes the file at "p"; the file at "q" is one of these
\* and stays as it is.
OtherFiles == {Readable(1, FileMixed), Readable(MaxTime, FileLong)}

NoFrame ==
    [op |-> "none", key |-> <<>>, value |-> <<>>, keys |-> <<>>, path |-> "",
     reset |-> FALSE, mtime |-> 0, lines |-> <<>>, scanned |-> <<>>, result |-> <<>>]

NoPass ==
    [outcome |-> "none", reset |-> FALSE, retry |-> FALSE, gap |-> "no", path |-> "",
     preParameters |-> NilMap, preLastupdate |-> 0, mtime |-> 0, content |-> <<>>]

\* the pass ended at a failure of os.Stat or os.Open
FailedPass(pass) == pass.outcome \in {"absent", "staterr", "openerr"}

Unlocked == [writer |-> "none", readers |-> {}]

\* a goroutine is panicking: unless its caller recovers, the process ends
Panicked == \E g \in Goroutines : pc[g] = "panicked"

\* no pass has ended since the latest write began; retry tells whether the
\* pass that ended last before it failed at os.Stat or os.Open, gap whether
\* the file was rewritten with a later modification time while that pass
\* was between its os.Stat and its end ("before")
BetweenPasses ==
    [NoPass EXCEPT !.retry = IF lastPass.outcome = "none"
                             THEN lastPass.retry
                             ELSE FailedPass(lastPass),
                   !.gap = IF lastPass.outcome = "none"
                           THEN lastPass.gap
                           ELSE IF lastPass.gap = "now" THEN "before" ELSE "no"]

\* what a step hands to log.Printf: the kind of the event, or nothing
Emit(e) == <<e>>
Silent == <<>>

\* Lock that does not wait for the readers to unlock
CanLockDespiteReaders == mutex.writer = "none"

\* c.mutex.Lock() returns
CanLock == mutex.writer = "none" /\ mutex.readers = {}

\* RLock that does not wait for the writer to unlock
CanRLockNoWait == TRUE

\* c.mutex.RLock() returns
CanRLock == mutex.writer = "none"

\* defer c.mutex.Unlock(): update called by New runs without the lock
ReleasedBy(g) == IF mutex.writer = g THEN Unlocked ELSE mutex

\* the file os.Stat and os.Open find at path; no file has the empty path
FileAt(path) == IF path \in Paths THEN fs[path] ELSE Absent

\* a comparison that lets any other modification time through
ModTimeDiffers(m, last) == m # last

\* a comparison that lets an equal modification time through
ModTimeNotBefore(m, last) == m >= last

\* stat.ModTime().After(time.Unix(0, c.lastupdate))
ModTimeAfter(m, last) == m > last

TypeOK ==
    /\ fs["p"] \in Files
    /\ fs["q"] \in OtherFiles
    /\ filename \in Paths \cup {""}
    /\ lastupdate \in Times
    /\ parameters.isNil \in BOOLEAN
    /\ ShouldLogUpdates \in BOOLEAN
    /\ mutex.writer \in Goroutines \cup {"none"}
    /\ mutex.readers \subseteq Callers
    /\ ctxDone \in BOOLEAN
    /\ Len(log) <= 1
    /\ phase \in {"start", "constructing", "fresh", "used"}

Init ==
    /\ fs \in {f \in [Paths -> Files \cup OtherFiles] :
                    f["p"] \in Files /\ f["q"] \in OtherFiles}
    /\ filename = ""
    /\ lastupdate = 0
    /\ parameters = NilMap
    /\ ShouldLogUpdates = FALSE
    /\ mutex = Unlocked
    /\ ctxDone = FALSE
    /\ pc = [g \in Goroutines |-> IF g = "main" THEN "start" ELSE "off"]
    /\ frame = [g \in Goroutines |-> NoFrame]
    /\ log = <<>>
    /\ phase = "start"
    /\ lastPass = NoPass
    /\ lastWrite = EmptyEntries

(***************************************************************************)
(* GetSlice: the loop that appends c.parameters[key] for each key.         *)
(***************************************************************************)
\* GetSlice that appends the values of the stored keys only
RECURSIVE GetSliceOfFound(_, _)
GetSliceOfFound(m, keys) ==
    IF keys = <<>> THEN <<>>
    ELSE (IF MapFound(m, Head(keys)) THEN <<MapLookup(m, Head(keys))>> ELSE <<>>)
         \o GetSliceOfFound(m, Tail(keys))

RECURSIVE GetSlice(_, _)
GetSlice(m, keys) ==
    IF keys = <<>> THEN <<>>
    ELSE <<MapLookup(m, Head(keys))>> \o GetSlice(m, Tail(keys))

(***************************************************************************)
(* NewWithContext, up to the call of config.update(): the struct literal   *)
(* sets filename only, so lastupdate is 0 and parameters is the nil map.   *)
(***************************************************************************)
NewWithContext(path, shouldLog) ==
    /\ pc["main"] = "start"
    /\ filename' = path
    /\ lastupdate' = 0
    /\ parameters' = NilMap
    /\ ShouldLogUpdates' = shouldLog
    /\ pc' = [pc EXCEPT !["main"] = "stat"]
    /\ frame' = [frame EXCEPT !["main"] = [NoFrame EXCEPT !.op = "New"]]
    /\ phase' = "constructing"
    /\ log' = Silent
    /\ UNCHANGED <<fs, mutex, ctxDone, lastPass, lastWrite>>

(***************************************************************************)
(* The end of a call of update by goroutine g: the deferred Unlock of the  *)
(* caller runs (Update, SetFilename), New starts the background goroutine. *)
(***************************************************************************)
PassEnds(g, pass) ==
    /\ mutex' = ReleasedBy(g)
    /\ pc' = IF frame[g].op = "New"
             THEN [pc EXCEPT ![g] = "idle", !["other"] = "idle", !["bg"] = "check"]
             ELSE [pc EXCEPT ![g] = IF g = "bg" THEN "check" ELSE "idle"]
    /\ phase' = IF frame[g].op = "New" THEN "fresh" ELSE phase
    /\ frame' = [frame EXCEPT ![g] = NoFrame]
    /\ lastPass' = pass

\* a panic inside a call of g: the deferred calls run
Panics(g, pass) ==
    /\ mutex' = ReleasedBy(g)
    /\ pc' = [pc EXCEPT ![g] = "panicked"]
    /\ lastPass' = pass
    /\ UNCHANGED phase

\* the first step of update: os.Stat and the comparison of modification times
UpdateStat(g) ==
    /\ ~Panicked
    /\ pc[g] = "stat"
    /\ LET f == FileAt(filename)
           begun == [outcome       |-> "running",
                     reset         |-> frame[g].reset,
                     retry         |-> lastPass.retry,
                     gap           |-> lastPass.gap,
                     path          |-> filename,
                     preParameters |-> parameters,
                     preLastupdate |-> lastupdate,
                     mtime         |-> f.mtime,
                     content       |-> <<>>]
       IN  IF f.status = "absent"
           THEN /\ PassEnds(g, [begun EXCEPT !.outcome = "absent"])
                /\ log' = Silent
           ELSE IF f.status = "staterr"
           THEN /\ PassEnds(g, [begun EXCEPT !.outcome = "staterr"])
                /\ log' = Emit("error opening")
           ELSE IF ~ModTimeAfter(f.mtime, lastupdate)
           THEN /\ PassEnds(g, [begun EXCEPT !.outcome = "unchanged"])
                /\ log' = Silent
           ELSE /\ pc' = [pc EXCEPT ![g] = "open"]
                /\ frame' = [frame EXCEPT ![g].mtime = f.mtime]
                /\ lastPass' = begun
                /\ log' = Silent
                /\ UNCHANGED <<mutex, phase>>
    /\ UNCHANGED <<fs, filename, lastupdate, parameters, ShouldLogUpdates,
                   ctxDone, lastWrite>>

\* os.Open, and the Scanner reading the file
UpdateOpen(g) ==
    /\ ~Panicked
    /\ pc[g] = "open"
    /\ LET f == FileAt(filename)
       IN  IF f.status # "ok"
           THEN /\ PassEnds(g, [lastPass EXCEPT !.outcome = "openerr"])
                /\ log' = Emit("error opening")
           ELSE /\ pc' = [pc EXCEPT ![g] = "scan"]
                /\ frame' = [frame EXCEPT ![g].lines = ScannerTokens(f.content)]
                /\ lastPass' = [lastPass EXCEPT !.content = f.content]
                /\ log' = Silent
                /\ UNCHANGED <<mutex, phase>>
    /\ UNCHANGED <<fs, filename, lastupdate, parameters, ShouldLogUpdates,
                   ctxDone, lastWrite>>

\* one turn of the loop `for scanner.Scan()`
UpdateScanLine(g) ==
    /\ ~Panicked
    /\ pc[g] = "scan"
    /\ frame[g].lines # <<>>
    /\ LET text   == Head(frame[g].lines)
           split  == SplitConfigurationFileLine(text)
           found  == MapFound(parameters, split.first)
           stored == MapLookup(parameters, split.first)
           next   == [frame EXCEPT ![g].lines = Tail(frame[g].lines),
                                   ![g].scanned = Append(frame[g].scanned, text)]
           wrote  == [k \in DOMAIN lastWrite \cup {split.first} |->
                         IF k = split.first THEN split.second ELSE lastWrite[k]]
       IN  IF split.err # NoError
           THEN /\ log' = IF split.err # ErrEmptyParameter /\ ShouldLogUpdates
                          THEN Emit("error parsing")
                          ELSE Silent
                /\ frame' = next
                /\ UNCHANGED <<parameters, lastWrite, pc, mutex, phase, lastPass>>
           ELSE IF found /\ stored = split.second
           THEN /\ frame' = next
                /\ lastWrite' = wrote
                /\ log' = Silent
                /\ UNCHANGED <<parameters, pc, mutex, phase, lastPass>>
           ELSE /\ log' = IF ~ShouldLogUpdates THEN Silent
                          ELSE IF ~found
                          THEN Emit("storing key")
                          ELSE Emit("updating key")
                /\ lastWrite' = wrote
                /\ IF MapStorePanics(parameters)
                   THEN /\ Panics(g, [lastPass EXCEPT !.outcome = "panic"])
                        /\ frame' = [frame EXCEPT ![g].scanned = Append(@, text)]
                        /\ UNCHANGED parameters
                   ELSE /\ parameters' = MapStore(parameters, split.first, split.second)
                        /\ frame' = next
                        /\ UNCHANGED <<pc, mutex, phase, lastPass>>
    /\ UNCHANGED <<fs, filename, lastupdate, ShouldLogUpdates, ctxDone>>

\* the scan is over: c.lastupdate = stat.ModTime().UnixNano()
UpdateFinish(g) ==
    /\ ~Panicked
    /\ pc[g] = "scan"
    /\ frame[g].lines = <<>>
    /\ lastupdate' = frame[g].mtime
    /\ PassEnds(g, [lastPass EXCEPT !.outcome = "scanned"])
    /\ log' = Silent
    /\ UNCHANGED <<fs, filename, parameters, ShouldLogUpdates, ctxDone, lastWrite>>

(***************************************************************************)
(* The operations of the store, called by the goroutines that hold it.     *)
(***************************************************************************)
\* SetKeyValue runs from Lock to the deferred Unlock without waiting
SetKeyValue(g, key, value) ==
    /\ ~Panicked
    /\ pc[g] = "idle"
    /\ CanLock
    /\ LET found  == MapFound(parameters, key)
           stored == MapLookup(parameters, key)
           call   == [NoFrame EXCEPT !.op = "SetKeyValue", !.key = key, !.value = value]
       IN  /\ lastWrite' = [k \in DOMAIN lastWrite \cup {key} |->
                               IF k = key THEN value ELSE lastWrite[k]]
           /\ IF found /\ stored = value
              THEN /\ log' = Silent
                   /\ UNCHANGED <<parameters, pc, frame>>
              ELSE /\ log' = IF ~ShouldLogUpdates THEN Silent
                             ELSE IF ~found
                             THEN Emit("storing key")
                             ELSE Emit("updating key")
                   /\ IF MapStorePanics(parameters)
                      THEN /\ pc' = [pc EXCEPT ![g] = "panicked"]
                           /\ frame' = [frame EXCEPT ![g] = call]
                           /\ UNCHANGED parameters
                      ELSE /\ parameters' = MapStore(parameters, key, value)
                           /\ UNCHANGED <<pc, frame>>
    /\ phase' = "used"
    /\ lastPass' = BetweenPasses
    /\ UNCHANGED <<fs, filename, lastupdate, ShouldLogUpdates, mutex, ctxDone>>

\* The caller of SetKeyValue, SetFilename or Update recovers the panic and
\* goes on with the store. A panic of New leaves the caller without a store,
\* a panic of the background goroutine ends the process.
Recover(g) ==
    /\ pc[g] = "panicked"
    /\ frame[g].op \in {"SetKeyValue", "SetFilename", "Update"}
    /\ pc' = [pc EXCEPT ![g] = "idle"]
    /\ frame' = [frame EXCEPT ![g] = NoFrame]
    /\ log' = Silent
    /\ UNCHANGED <<fs, filename, lastupdate, parameters, ShouldLogUpdates, mutex,
                   ctxDone, phase, lastPass, lastWrite>>

\* Get: c.mutex.RLock() and the read of c.parameters[key]
GetRLock(g, key) ==
    /\ ~Panicked
    /\ pc[g] = "idle"
    /\ CanRLock
    /\ mutex' = [mutex EXCEPT !.readers = @ \cup {g}]
    /\ pc' = [pc EXCEPT ![g] = "get"]
    /\ frame' = [frame EXCEPT ![g] = [NoFrame EXCEPT !.op = "Get",
                                                     !.key = key,
                                                     !.result = MapLookup(parameters, key)]]
    /\ log' = Silent
    /\ UNCHANGED <<fs, filename, lastupdate, parameters, ShouldLogUpdates,
                   ctxDone, phase, lastPass, lastWrite>>

\* Get: the return and the deferred RUnlock
GetReturn(g) ==
    /\ ~Panicked
    /\ pc[g] = "get"
    /\ frame' = [frame EXCEPT ![g] = NoFrame]
    /\ mutex' = [mutex EXCEPT !.readers = @ \ {g}]
    /\ pc' = [pc EXCEPT ![g] = "idle"]
    /\ log' = Silent
    /\ UNCHANGED <<fs, filename, lastupdate, parameters, ShouldLogUpdates,
                   ctxDone, phase, lastPass, lastWrite>>

\* GetSlice: c.mutex.RLock() and the loop over keys
GetSliceRLock(g, keys) ==
    /\ ~Panicked
    /\ pc[g] = "idle"
    /\ CanRLock
    /\ mutex' = [mutex EXCEPT !.readers = @ \cup {g}]
    /\ pc' = [pc EXCEPT ![g] = "getslice"]
    /\ frame' = [frame EXCEPT ![g] = [NoFrame EXCEPT !.op = "GetSlice",
                                                     !.keys = keys,
                                                     !.result = GetSlice(parameters, keys)]]
    /\ log' = Silent
    /\ UNCHANGED <<fs, filename, lastupdate, parameters, ShouldLogUpdates,
                   ctxDone, phase, lastPass, lastWrite>>

\* GetSlice: the return and the deferred RUnlock
GetSliceReturn(g) ==
    /\ ~Panicked
    /\ pc[g] = "getslice"
    /\ frame' = [frame EXCEPT ![g] = NoFrame]
    /\ mutex' = [mutex EXCEPT !.readers = @ \ {g}]
    /\ pc' = [pc EXCEPT ![g] = "idle"]
    /\ log' = Silent
    /\ UNCHANGED <<fs, filename, lastupdate, parameters, ShouldLogUpdates,
                   ctxDone, phase, lastPass, lastWrite>>

\* SetFilename: Lock and the assignment of the path; c.update() follows
SetFilename(g, path) ==
    /\ ~Panicked
    /\ pc[g] = "idle"
    /\ CanLock
    /\ mutex' = [mutex EXCEPT !.writer = g]
    /\ filename' = path
    /\ lastupdate' = IF filename # path THEN 0 ELSE lastupdate
    /\ pc' = [pc EXCEPT ![g] = "stat"]
    /\ frame' = [frame EXCEPT ![g] = [NoFrame EXCEPT !.op = "SetFilename",
                                                     !.path = path,
                                                     !.reset = (filename # path)]]
    /\ phase' = "used"
    /\ lastPass' = IF filename # path THEN NoPass ELSE BetweenPasses
    /\ log' = Silent
    /\ UNCHANGED <<fs, parameters, ShouldLogUpdates, ctxDone, lastWrite>>

\* Update: Lock; c.update() follows
Update(g) ==
    /\ ~Panicked
    /\ pc[g] = "idle"
    /\ CanLock
    /\ mutex' = [mutex EXCEPT !.writer = g]
    /\ pc' = [pc EXCEPT ![g] = "stat"]
    /\ frame' = [frame EXCEPT ![g] = [NoFrame EXCEPT !.op = "Update"]]
    /\ phase' = "used"
    /\ lastPass' = BetweenPasses
    /\ log' = Silent
    /\ UNCHANGED <<fs, filename, lastupdate, parameters, ShouldLogUpdates,
                   ctxDone, lastWrite>>

(***************************************************************************)
(* The goroutine started by NewWithContext.                                *)
(***************************************************************************)
\* channels.ContextNotDone(ctx), the condition of the for loop
ContextNotDone == ~ctxDone

BgLoopTest ==
    /\ ~Panicked
    /\ pc["bg"] = "check"
    /\ pc' = [pc EXCEPT !["bg"] = IF ContextNotDone THEN "select" ELSE "stopped"]
    /\ log' = Silent
    /\ UNCHANGED <<fs, filename, lastupdate, parameters, ShouldLogUpdates,
                   mutex, ctxDone, frame, phase, lastPass, lastWrite>>

\* case <-after: config.Update() has taken the lock
BgTick ==
    /\ ~Panicked
    /\ pc["bg"] = "select"
    /\ CanLock
    /\ mutex' = [mutex EXCEPT !.writer = "bg"]
    /\ pc' = [pc EXCEPT !["bg"] = "stat"]
    /\ frame' = [frame EXCEPT !["bg"] = [NoFrame EXCEPT !.op = "tick"]]
    /\ phase' = "used"
    /\ lastPass' = BetweenPasses
    /\ log' = Silent
    /\ UNCHANGED <<fs, filename, lastupdate, parameters, ShouldLogUpdates,
                   ctxDone, lastWrite>>

\* case <-ctx.Done(): return
BgCancelled ==
    /\ ~Panicked
    /\ pc["bg"] = "select"
    /\ ctxDone
    /\ pc' = [pc EXCEPT !["bg"] = "stopped"]
    /\ log' = Silent
    /\ UNCHANGED <<fs, filename, lastupdate, parameters, ShouldLogUpdates,
                   mutex, ctxDone, frame, phase, lastPass, lastWrite>>

(***************************************************************************)
(* The environment: the files and the cancellation signal.                 *)
(***************************************************************************)
EnvChange(path, file) ==
    /\ ~Panicked
    /\ phase # "start"
    /\ fs[path] # file
    /\ fs' = [fs EXCEPT ![path] = file]
    /\ lastPass' = IF /\ lastPass.outcome = "running"
                      /\ path = filename
                      /\ file.status = "ok"
                      /\ file.mtime > lastPass.mtime
                   THEN [lastPass EXCEPT !.gap = "now"]
                   ELSE lastPass
    /\ UNCHANGED <<filename, lastupdate, parameters, ShouldLogUpdates, mutex,
                   ctxDone, pc, frame, log, phase, lastWrite>>

EnvWriteFile == \E file \in ReadableFiles : EnvChange("p", file)

EnvRemoveFile == EnvChange("p", Absent)

EnvBreakFile == \E file \in BrokenFiles : EnvChange("p", file)

Cancel ==
    /\ ~Panicked
    /\ phase # "start"
    /\ ~ctxDone
    /\ ctxDone' = TRUE
    /\ UNCHANGED <<fs, filename, lastupdate, parameters, ShouldLogUpdates,
                   mutex, pc, frame, log, phase, lastPass, lastWrite>>

Next ==
    \/ \E path \in Paths, shouldLog \in BOOLEAN : NewWithContext(path, shouldLog)
    \/ \E g \in Goroutines : UpdateStat(g)
    \/ \E g \in Goroutines : UpdateOpen(g)
    \/ \E g \in Goroutines : UpdateScanLine(g)
    \/ \E g \in Goroutines : UpdateFinish(g)
    \/ \E key \in SetKeys, value \in Values : SetKeyValue("main", key, value)
    \/ \E key \in GetKeys : GetRLock("other", key)
    \/ GetReturn("other")
    \/ \E keys \in SliceQueries : GetSliceRLock("other", keys)
    \/ GetSliceReturn("other")
    \/ \E path \in Paths : SetFilename("main", path)
    \/ Update("main")
    \/ Recover("main")
    \/ BgLoopTest
    \/ BgTick
    \/ BgCancelled
    \/ EnvWriteFile
    \/ EnvRemoveFile
    \/ EnvBreakFile
    \/ Cancel

Spec == Init /\ [][Next]_vars

(***************************************************************************)
(* Fairness: a goroutine inside update runs on, a reader returns, the      *)
(* timer of the background loop fires and its Lock is granted (a waiting   *)
(* Lock of sync.RWMutex keeps new readers out), a closed ctx.Done() is     *)
(* seen by the select.                                                     *)
(***************************************************************************)
\* a step of update by goroutine g
UpdateStep(g) == UpdateStat(g) \/ UpdateOpen(g) \/ UpdateScanLine(g) \/ UpdateFinish(g)

Fairness ==
    /\ WF_vars(UpdateStep("main"))
    /\ WF_vars(GetReturn("other") \/ GetSliceReturn("other"))
    /\ WF_vars(UpdateStep("bg") \/ BgLoopTest \/ BgCancelled)
    /\ SF_vars(BgTick)

FairSpec == Spec /\ Fairness

(***************************************************************************)
(* GetSlice on every value the field parameters can take: the maps over    *)
(* Keys and Values, and the nil map.                                       *)
(***************************************************************************)
Maps ==
    {NilMap} \cup
    {[isNil |-> FALSE, entries |-> e] : e \in UNION {[d -> Values] : d \in SUBSET Keys}}

KeySeqs == UNION {[1..n -> Keys] : n \in 0..MaxKeys}

GetSliceInit ==
    /\ fs = [path \in Paths |-> Absent]
    /\ filename = "p"
    /\ lastupdate = 0
    /\ parameters \in Maps
    /\ ShouldLogUpdates = FALSE
    /\ mutex = Unlocked
    /\ ctxDone = FALSE
    /\ pc = [g \in Goroutines |-> IF g = "bg" THEN "check" ELSE "idle"]
    /\ frame = [g \in Goroutines |-> NoFrame]
    /\ log = <<>>
    /\ phase = "used"
    /\ lastPass = NoPass
    /\ lastWrite = EmptyEntries

GetSliceNext ==
    \/ \E keys \in KeySeqs : GetSliceRLock("other", keys)
    \/ GetSliceReturn("other")

GetSliceSpec == GetSliceInit /\ [][GetSliceNext]_vars

(***************************************************************************)
(* The writes of one caller to a constructed store, for either value of    *)
(* the field parameters: nil, as NewWithContext leaves it, or a map that   *)
(* was made (empty, or holding the key "m"). The caller may set the        *)
(* exported field ShouldLogUpdates at any time.                            *)
(***************************************************************************)
\* c.ShouldLogUpdates.Store(b): an atomic write that takes no lock
StoreShouldLogUpdates(b) ==
    /\ ~Panicked
    /\ ShouldLogUpdates # b
    /\ ShouldLogUpdates' = b
    /\ UNCHANGED <<fs, filename, lastupdate, parameters, mutex, ctxDone, pc,
                   frame, log, phase, lastPass, lastWrite>>

StoreMaps ==
    {NilMap,
     [isNil |-> FALSE, entries |-> EmptyEntries],
     [isNil |-> FALSE, entries |-> [k \in {<<"m">>} |-> <<"1">>]]}

StoreInit ==
    /\ fs \in {f \in [Paths -> Files \cup OtherFiles] :
                    f["p"] \in Files /\ f["q"] \in OtherFiles}
    /\ filename = "p"
    /\ lastupdate = 0
    /\ parameters \in StoreMaps
    /\ ShouldLogUpdates \in BOOLEAN
    /\ mutex = Unlocked
    /\ ctxDone = FALSE
    /\ pc = [g \in Goroutines |-> IF g = "bg" THEN "check" ELSE "idle"]
    /\ frame = [g \in Goroutines |-> NoFrame]
    /\ log = <<>>
    /\ phase = "used"
    /\ lastPass = NoPass
    /\ lastWrite = parameters.entries

StoreNext ==
    \/ UpdateStat("main")
    \/ UpdateOpen("main")
    \/ UpdateScanLine("main")
    \/ UpdateFinish("main")
    \/ \E key \in SetKeys, value \in Values : SetKeyValue("main", key, value)
    \/ \E path \in Paths : SetFilename("main", path)
    \/ Update("main")
    \/ Recover("main")
    \/ \E b \in BOOLEAN : StoreShouldLogUpdates(b)
    \/ EnvWriteFile
    \/ EnvRemoveFile
    \/ EnvBreakFile

StoreSpec == StoreInit /\ [][StoreNext]_vars

(***************************************************************************)
(* SplitConfigurationFileLine on every line of at most MaxLine bytes over  *)
(* LineBytes: a caller passes one line and later has the result.           *)
(***************************************************************************)
LineBytes == {"k", " ", "\t", "=", ":"}

Lines == UNION {[1..n -> LineBytes] : n \in 0..MaxLine}

SplitInit ==
    /\ fs = [path \in Paths |-> Absent]
    /\ filename = "p"
    /\ lastupdate = 0
    /\ parameters = NilMap
    /\ ShouldLogUpdates = FALSE
    /\ mutex = Unlocked
    /\ ctxDone = FALSE
    /\ pc = [g \in Goroutines |-> IF g = "bg" THEN "check" ELSE "idle"]
    /\ frame = [g \in Goroutines |-> NoFrame]
    /\ log = <<>>
    /\ phase = "used"
    /\ lastPass = NoPass
    /\ lastWrite = EmptyEntries

\* the call SplitConfigurationFileLine(line), for some line
SplitCall(g) ==
    /\ pc[g] = "idle"
    /\ frame[g].op = "none"
    /\ pc' = [pc EXCEPT ![g] = "split"]
    /\ \E line \in Lines :
          frame' = [frame EXCEPT ![g] = [NoFrame EXCEPT !.op = "SplitConfigurationFileLine",
                                                       !.lines = <<line>>]]
    /\ UNCHANGED <<fs, filename, lastupdate, parameters, ShouldLogUpdates, mutex,
                   ctxDone, log, phase, lastPass, lastWrite>>

\* its return: frame[g].scanned is the line, frame[g].result what was returned
SplitReturn(g) ==
    /\ pc[g] = "split"
    /\ pc' = [pc EXCEPT ![g] = "idle"]
    /\ frame' = [frame EXCEPT ![g].lines = <<>>,
                              ![g].scanned = frame[g].lines,
                              ![g].result = SplitConfigurationFileLine(Head(frame[g].lines))]
    /\ UNCHANGED <<fs, filename, lastupdate, parameters, ShouldLogUpdates, mutex,
                   ctxDone, log, phase, lastPass, lastWrite>>

SplitNext ==
    \/ SplitCall("main")
    \/ SplitReturn("main")

SplitSpec == SplitInit /\ [][SplitNext]_vars

(***************************************************************************)
(* What a complete scan of a file stores.                                  *)
(***************************************************************************)
RECURSIVE ValidPairs(_)
ValidPairs(lines) ==
    IF lines = <<>> THEN <<>>
    ELSE LET split == SplitConfigurationFileLine(Head(lines))
         IN  (IF split.err = NoError THEN <<split>> ELSE <<>>) \o ValidPairs(Tail(lines))

FilePairs(content) == ValidPairs(ScannerTokens(content))

FileKeys(content) == {FilePairs(content)[i].first : i \in 1..Len(FilePairs(content))}

\* the value of the last valid line for key
FileValue(content, key) ==
    LET pairs == FilePairs(content)
        last  == CHOOSE i \in 1..Len(pairs) :
                    /\ pairs[i].first = key
                    /\ \A j \in (i + 1)..Len(pairs) : pairs[j].first # key
    IN  pairs[last].second

\* Get returns the file's value for every key of a valid line
HoldsFile(content) ==
    \A key \in FileKeys(content) : MapLookup(parameters, key) = FileValue(content, key)

\* the pass that ended last found this file: its stat saw the file's
\* modification time and, when it opened the file, it read this content
PassSaw(file) ==
    /\ lastPass.outcome \in {"unchanged", "scanned", "panic"}
    /\ file.status = "ok"
    /\ lastPass.mtime = file.mtime
    /\ lastPass.outcome # "unchanged" => lastPass.content = file.content

InPass(g) == pc[g] \in {"stat", "open", "scan"}

\* the lines of a file, whatever their length: the text between the "\n",
\* without one trailing "\r"
RECURSIVE AllLines(_)
AllLines(data) ==
    IF data = <<>> THEN <<>>
    ELSE IF \E i \in 1..Len(data) : data[i] = "\n"
    THEN LET i == CHOOSE n \in 1..Len(data) :
                      data[n] = "\n" /\ \A j \in 1..(n - 1) : data[j] # "\n"
         IN  <<DropCR(SubSeq(data, 1, i - 1))>> \o AllLines(SubSeq(data, i + 1, Len(data)))
    ELSE <<DropCR(data)>>

\* the validly delimited lines of a file
LinePairs(content) == ValidPairs(AllLines(content))

\* the store holds, for every key of a validly delimited line of the file,
\* the value of the last such line
AppliedEveryLine(content) ==
    LET pairs == LinePairs(content)
    IN  \A i \in 1..Len(pairs) :
            (\A j \in (i + 1)..Len(pairs) : pairs[j].first # pairs[i].first)
            => MapLookup(parameters, pairs[i].first) = pairs[i].second

(***************************************************************************)
(* The claims.                                                             *)
(***************************************************************************)
\* New has returned, or has panicked, and nothing has used the store yet
ConstructorEnded ==
    \/ phase = "fresh"
    \/ phase = "constructing" /\ pc["main"] = "panicked"

\* C1: when New ends on a readable file whose modification time is after
\* the epoch, it has returned a store, and before any tick Get returns the
\* file's value for every key of a valid line of the file.
ConstructorLoadsFile ==
    (/\ ConstructorEnded
     /\ PassSaw(FileAt(filename))
     /\ ModTimeAfter(FileAt(filename).mtime, 0))
    => /\ ~Panicked
       /\ HoldsFile(FileAt(filename).content)

\* C2: SetKeyValue, Get and GetSlice never panic, and Get returns the value
\* of the latest write to its key, or the empty string when there is none.
SetAndGetNeverFail ==
    /\ \A g \in Callers :
          pc[g] = "panicked" => frame[g].op \notin {"SetKeyValue", "Get", "GetSlice"}
    /\ \A g \in Callers :
          pc[g] = "get" =>
              frame[g].result = IF frame[g].key \in DOMAIN lastWrite
                                THEN lastWrite[frame[g].key]
                                ELSE <<>>

\* C3: a reader that holds the store (between RLock and RUnlock of Get or
\* GetSlice) never does so while a reconciliation pass is under way, the
\* value it read is the one stored, and a pass that a panic cut short has
\* stored nothing: the reader sees no pass half applied.
ReadersSeeWholePasses ==
    \A r \in Callers :
        pc[r] \in {"get", "getslice"} =>
            /\ \A g \in Goroutines : ~InPass(g)
            /\ pc[r] = "get" => frame[r].result = MapLookup(parameters, frame[r].key)
            /\ lastPass.outcome = "panic" => parameters = lastPass.preParameters

\* a pass of the background goroutine is in the middle of its scan, holding
\* the lock, while the reader is outside Get and GetSlice
PassUnderWayWitness ==
    /\ pc["bg"] = "scan"
    /\ frame["bg"].scanned # <<>>
    /\ frame["bg"].lines # <<>>
    /\ mutex.writer = "bg"
    /\ pc["other"] = "idle"

\* C4: a pass whose stat finds the modification time after lastupdate, on a
\* file it can open, rereads the file, and Get then returns the file's
\* values; a pass whose stat finds it not after lastupdate leaves parameters
\* and lastupdate as they were.
PassRereadsIffNewer ==
    /\ (/\ lastPass.outcome \in {"unchanged", "scanned", "panic"}
        /\ ModTimeAfter(lastPass.mtime, lastPass.preLastupdate))
       => /\ lastPass.outcome = "scanned"
          /\ HoldsFile(lastPass.content)
    /\ (/\ lastPass.outcome \in {"unchanged", "scanned", "panic"}
        /\ ~ModTimeAfter(lastPass.mtime, lastPass.preLastupdate))
       => /\ lastPass.outcome = "unchanged"
          /\ parameters = lastPass.preParameters
          /\ lastupdate = lastPass.preLastupdate

\* C5: when SetFilename with a path that differs from the current one has
\* ended on a readable file (modification time after the epoch), Get returns
\* the file's value for every key of a valid line of that file.
SetFilenameLoadsNewPath ==
    (/\ lastPass.reset
     /\ PassSaw(FileAt(filename))
     /\ ModTimeAfter(FileAt(filename).mtime, 0))
    => /\ ~Panicked
       /\ HoldsFile(FileAt(filename).content)

\* C6: for every key, parameters holds the value of the latest write to the
\* key, a write being a call of SetKeyValue or a valid line of a scan.
LastWriteWins ==
    \A key \in DOMAIN lastWrite : MapLookup(parameters, key) = lastWrite[key]

\* the file with content c, written with modification time m after
\* lastupdate while the context is not done, is eventually loaded by the
\* background loop (lastupdate is m and Get returns the values of c), unless
\* the context is cancelled, the file changes or a call of the consumer
\* ends the process first
EventuallyLoaded(m, c) ==
    (/\ phase \in {"fresh", "used"}
     /\ ~ctxDone
     /\ FileAt(filename) = Readable(m, c)
     /\ ModTimeAfter(m, lastupdate))
    ~> (\/ lastupdate = m /\ HoldsFile(c)
        \/ ctxDone
        \/ FileAt(filename) # Readable(m, c)
        \/ pc["main"] = "panicked")

\* C7: under fair scheduling, a file edited to "a=1\nb=2" with a
\* modification time after lastupdate, which stays as it is, is eventually
\* loaded without a call of Update or SetFilename.
EditsEventuallyLoaded == EventuallyLoaded(1, FileAB)

BgRunning == pc["bg"] \in {"check", "select", "stat", "open", "scan"}
BgStopped == pc["bg"] = "stopped"

\* C8: the background goroutine is running or stopped; it leaves running
\* only for stopped and only when the context is done, it stays stopped, and
\* once the context is done it eventually stops.
RefresherRunsUntilCancelled ==
    /\ [][/\ BgRunning => (BgRunning' \/ (BgStopped' /\ ctxDone))
          /\ BgStopped => BgStopped']_vars
    /\ (ctxDone ~> BgStopped)

\* C9: SetKeyValue(k, v), called when the latest write to k was v, changes
\* nothing in the store, emits no log event and returns.
SetKeyValueIdempotent ==
    [][\A key \in SetKeys : \A value \in Values :
          (/\ key \in DOMAIN lastWrite
           /\ lastWrite[key] = value
           /\ SetKeyValue("main", key, value))
          => /\ parameters' = parameters
             /\ log' = Silent
             /\ pc' = pc]_vars

\* C10: GetSlice(ks) has the length of ks, its i-th element is what Get
\* returns for ks[i] in the same state of the store (the empty string for
\* an absent key), and the store is as it was.
GetSliceMatchesGet ==
    [][\A keys \in KeySeqs :
          GetSliceRLock("other", keys)
          => /\ Len(frame'["other"].result) = Len(keys)
             /\ \A i \in 1..Len(keys) :
                   frame'["other"].result[i] = MapLookup(parameters, keys[i])
             /\ parameters' = parameters
             /\ lastupdate' = lastupdate
             /\ filename' = filename]_vars

\* GetSlice(["a", "m", "b"]) has returned ["1", "", "2"]
GetSliceWitness ==
    /\ pc["other"] = "getslice"
    /\ frame["other"].keys = << <<"a">>, <<"m">>, <<"b">> >>
    /\ frame["other"].result = << <<"1">>, <<>>, <<"2">> >>

(***************************************************************************)
(* The parser (SplitSpec).                                                 *)
(***************************************************************************)
\* SplitConfigurationFileLine has returned for the line given
SplitDone == pc["main"] = "idle" /\ frame["main"].op = "SplitConfigurationFileLine"

SplitLine == Head(frame["main"].scanned)

SplitResult == frame["main"].result

\* line is k + d + v with d a delimiter at 1-based position i and no
\* delimiter in k
SplitsAt(line, i) ==
    /\ line[i] \in Delimiters
    /\ \A j \in 1..(i - 1) : line[j] \notin Delimiters

\* C11: for a line k + d + v, d being "=" or ":" and k holding neither, the
\* parser returns key k and value v exactly and no error.
SplitYieldsKeyAndValue ==
    SplitDone =>
        \A i \in 1..Len(SplitLine) :
            SplitsAt(SplitLine, i) =>
                /\ SplitResult.err = NoError
                /\ SplitResult.first = SubSeq(SplitLine, 1, i - 1)
                /\ SplitResult.second = SubSeq(SplitLine, i + 1, Len(SplitLine))

\* C11 as amended: for a line k + d + v, d being "=" or ":" and k holding
\* neither, the parser returns no error, the key k without its leading
\* whitespace and the value v without its trailing whitespace; whitespace
\* next to the delimiter and later delimiters stay in the key and the value.
SplitYieldsTrimmedLine ==
    SplitDone =>
        \A i \in 1..Len(SplitLine) :
            SplitsAt(SplitLine, i) =>
                /\ SplitResult.err = NoError
                /\ SplitResult.first = TrimLeft(SubSeq(SplitLine, 1, i - 1))
                /\ SplitResult.second =
                       TrimRight(SubSeq(SplitLine, i + 1, Len(SplitLine)))

\* " k =:" was split into key "k " and value ":"
SplitWitness ==
    /\ SplitDone
    /\ SplitLine = <<" ", "k", " ", "=", ":">>
    /\ SplitResult = [first |-> <<"k", " ">>, second |-> <<":">>, err |-> NoError]

\* the line holds nothing but whitespace (or nothing at all)
Blank(line) == \A i \in 1..Len(line) : line[i] \in WhiteSpace

\* errors.Is(err, ErrEmptyParameter), as update asks at line 108
IsEmptyParameter(err) == err = ErrEmptyParameter

\* C12: a blank line fails with ErrEmptyParameter, a line that is not blank
\* and holds neither "=" nor ":" fails with the missing-delimiter error, and
\* errors.Is(err, ErrEmptyParameter) tells the two apart.
SplitClassifiesFailures ==
    SplitDone =>
        /\ Blank(SplitLine) =>
              /\ SplitResult.err # NoError
              /\ IsEmptyParameter(SplitResult.err)
        /\ (~Blank(SplitLine) /\ \A i \in 1..Len(SplitLine) : SplitLine[i] \notin Delimiters) =>
              /\ SplitResult.err = ErrMissingDelimiter
              /\ ~IsEmptyParameter(SplitResult.err)
        /\ SplitResult.err # NoError =>
              SplitResult.first = <<>> /\ SplitResult.second = <<>>

\* the line " \t" failed as empty
SplitBlankWitness ==
    /\ SplitDone
    /\ SplitLine = <<" ", "\t">>
    /\ SplitResult.err = ErrEmptyParameter

(***************************************************************************)
(* The reconciler.                                                         *)
(***************************************************************************)
\* the pass that ended last went on after os.Stat: it ended at the
\* comparison of the modification times, at the end of its scan or in a panic
PassStatted == lastPass.outcome \in {"unchanged", "scanned", "panic"}

\* C13: a pass whose os.Stat or os.Open fails leaves parameters, lastupdate
\* and filename as they were; and the first pass after it that finds the
\* file readable with a modification time after lastupdate loads the file.
FailedPassIsRetried ==
    /\ FailedPass(lastPass) =>
          /\ parameters = lastPass.preParameters
          /\ lastupdate = lastPass.preLastupdate
          /\ filename = lastPass.path
    /\ (/\ lastPass.retry
        /\ PassStatted
        /\ ModTimeAfter(lastPass.mtime, lastPass.preLastupdate))
       => /\ lastPass.outcome = "scanned"
          /\ lastupdate = lastPass.mtime
          /\ HoldsFile(lastPass.content)

\* C14: a pass that opened the file and whose scan is over has set
\* lastupdate to the modification time its os.Stat saw, whatever the lines
\* were; and a pass whose os.Stat sees the modification time lastupdate
\* already holds does not scan: it leaves parameters and lastupdate alone.
ScanAdvancesTimestamp ==
    /\ lastPass.outcome = "scanned" => lastupdate = lastPass.mtime
    /\ (/\ lastPass.outcome \in {"unchanged", "scanned", "panic", "openerr"}
        /\ lastPass.mtime = lastPass.preLastupdate)
       => /\ lastPass.outcome = "unchanged"
          /\ parameters = lastPass.preParameters
          /\ lastupdate = lastPass.preLastupdate

\* a file of unparsable lines only has advanced lastupdate, and the pass
\* after that scan has found the modification time unchanged
JunkNotRescannedWitness ==
    /\ lastPass.outcome = "unchanged"
    /\ lastPass.mtime > 0
    /\ lastPass.mtime = lastupdate
    /\ FileAt(filename) = Readable(lastupdate, FileJunk)

\* C15: after a pass that scanned a file, every validly delimited line of
\* the file has been applied, wherever the blank and delimiter-less lines
\* of the file are.
ScanAppliesEveryValidLine ==
    lastPass.outcome = "scanned" => AppliedEveryLine(lastPass.content)

\* C16: lastupdate is zero when the store is constructed; it changes only at
\* the end of a completed scan, to the modification time the pass saw and
\* that is later than the value before, or by SetFilename with a differing
\* path, to zero; so it never decreases while filename stays the same.
LastupdateAdvances ==
    [][/\ (phase = "start" /\ phase' # "start") => lastupdate' = 0
       /\ (phase # "start" /\ lastupdate' # lastupdate) =>
             \/ /\ \E g \in Goroutines :
                      /\ pc[g] = "scan"
                      /\ pc'[g] \in {"idle", "check"}
                      /\ lastupdate' = frame[g].mtime
                /\ lastPass'.outcome = "scanned"
                /\ lastupdate' > lastupdate
                /\ filename' = filename
             \/ /\ filename' # filename
                /\ lastupdate' = 0
       /\ (phase # "start" /\ filename' = filename) => lastupdate' >= lastupdate]_vars

\* the file's modification time went backwards and the pass did not rescan it
OlderFileNotRescannedWitness ==
    /\ lastPass.outcome = "unchanged"
    /\ FileAt(filename).status = "ok"
    /\ FileAt(filename).mtime = lastPass.mtime
    /\ lastPass.mtime < lastupdate
    /\ lastPass.mtime > 0

\* no writer holds the lock together with a reader, and the readers that
\* hold it are the goroutines inside Get and GetSlice
ExclusiveOrShared ==
    /\ mutex.writer # "none" => mutex.readers = {}
    /\ \A r \in Callers : r \in mutex.readers <=> pc[r] \in {"get", "getslice"}

\* C17: a goroutine inside a reconciliation pass (where filename is read and
\* parameters and lastupdate are written) holds the exclusive lock, whichever
\* of SetFilename, Update, the timer tick and the constructor runs the pass;
\* no writer holds access together with a reader.
EveryPassHoldsLock ==
    /\ \A g \in Goroutines : InPass(g) => mutex.writer = g
    /\ ExclusiveOrShared

\* C17 as amended: a goroutine inside a pass run by SetFilename, Update or
\* the timer tick holds the exclusive lock; the pass of the constructor runs
\* without the lock while no other goroutine has the store; no writer holds
\* access together with a reader.
EveryPassAfterNewHoldsLock ==
    /\ \A g \in Goroutines :
          InPass(g) =>
              \/ mutex.writer = g
              \/ /\ frame[g].op = "New"
                 /\ phase = "constructing"
                 /\ mutex = Unlocked
                 /\ \A h \in Goroutines \ {g} : pc[h] = "off"
    /\ ExclusiveOrShared

\* the pass of a timer tick is about to open the file, holding the lock,
\* while the reader waits outside
TickHoldsLockWitness ==
    /\ pc["bg"] = "open"
    /\ mutex = [writer |-> "bg", readers |-> {}]
    /\ pc["other"] = "idle"

\* the keys of the validly delimited lines the Scanner hands to the loop
ScannedKeys(content) == FileKeys(content)

\* C18: no step of the store removes a key, and when a pass has ended, every
\* key that is on no validly parsed line of the file it scanned is stored or
\* not as before the pass, with the value it had before the pass; this holds
\* as well for the pass SetFilename runs on a new path.
PassChangesOnlyFileKeys ==
    [][/\ DOMAIN parameters.entries \subseteq DOMAIN parameters'.entries
       /\ (lastPass' # lastPass /\ lastPass'.outcome \notin {"none", "running"}) =>
             \A key \in DOMAIN parameters'.entries \cup DOMAIN lastPass'.preParameters.entries :
                 key \notin ScannedKeys(lastPass'.content) =>
                     /\ MapFound(parameters', key) = MapFound(lastPass'.preParameters, key)
                     /\ MapLookup(parameters', key) = MapLookup(lastPass'.preParameters, key)]_vars

\* SetFilename with a new path has scanned "j\na:2\n": the key "a" is stored
\* and the key "m" of before is still there
OldKeysPersistWitness ==
    /\ lastPass.outcome = "scanned"
    /\ lastPass.reset
    /\ lastPass.content = FileMixed
    /\ MapLookup(lastPass.preParameters, <<"a">>) # <<"2">>
    /\ MapLookup(parameters, <<"a">>) = <<"2">>
    /\ MapLookup(parameters, <<"m">>) = <<"1">>

\* the map a full scan of content leaves when it starts from the map pre:
\* the keys of pre and of the valid lines, the latter with the value of
\* their last line
AfterScan(pre, content) ==
    IF FileKeys(content) = {} THEN pre
    ELSE [isNil   |-> FALSE,
          entries |-> [key \in DOMAIN pre.entries \cup FileKeys(content) |->
                          IF key \in FileKeys(content)
                          THEN FileValue(content, key)
                          ELSE pre.entries[key]]]

\* C19: whatever ShouldLogUpdates is, and whenever it is set, the state of
\* the store is determined by the operations and the files alone: a map that
\* was made holds the latest write to each key, a pass that failed or found
\* the modification time unchanged leaves parameters and lastupdate as they
\* were, a pass that scanned has stored the valid lines it read and has set
\* lastupdate to the modification time it saw, and a pass panics exactly
\* when it must store into the nil map. Two stores that differ in the toggle
\* only therefore agree in parameters, lastupdate and filename at every step.
LoggingToggleIsInert ==
    /\ ~parameters.isNil => parameters.entries = lastWrite
    /\ parameters.isNil => parameters = NilMap
    /\ (FailedPass(lastPass) \/ lastPass.outcome = "unchanged") =>
          /\ parameters = lastPass.preParameters
          /\ lastupdate = lastPass.preLastupdate
    /\ lastPass.outcome = "scanned" =>
          /\ ~(lastPass.preParameters.isNil /\ FileKeys(lastPass.content) # {})
          /\ parameters = AfterScan(lastPass.preParameters, lastPass.content)
          /\ lastupdate = lastPass.mtime
    /\ lastPass.outcome = "panic" =>
          /\ lastPass.preParameters.isNil
          /\ FileKeys(lastPass.content) # {}
          /\ parameters = lastPass.preParameters
          /\ lastupdate = lastPass.preLastupdate
    /\ lastPass.outcome \notin {"none", "running"} => filename = lastPass.path

\* with logging switched off, a pass has scanned a file and changed the map
SilentPassStoresWitness ==
    /\ ~ShouldLogUpdates
    /\ lastPass.outcome = "scanned"
    /\ parameters # lastPass.preParameters
    /\ parameters = AfterScan(lastPass.preParameters, lastPass.content)

\* C20: when the file is rewritten with a later modification time while a
\* pass is between its os.Stat and the end of its scan, the pass that scans
\* to the end sets lastupdate to the earlier time its os.Stat saw; and the
\* next pass, finding the file newer than lastupdate, scans it again, after
\* which Get returns the values of the file it read.
EditInGapIsNotLost ==
    /\ (lastPass.gap = "now" /\ lastPass.outcome = "scanned") =>
          lastupdate = lastPass.mtime
    /\ (/\ lastPass.gap = "before"
        /\ PassStatted
        /\ ModTimeAfter(lastPass.mtime, lastPass.preLastupdate))
       => /\ lastPass.outcome = "scanned"
          /\ lastupdate = lastPass.mtime
          /\ HoldsFile(lastPass.content)

====
